---- MODULE Spec2Model ----
(***************************************************************************)
(* Model of components/utils/src/site.rs: the internal link resolver       *)
(* (resolve_internal_link and its helpers) and the relative path           *)
(* canonicalizer (canonicalize_relative_path).                             *)
(*                                                                         *)
(* A string is a sequence of characters, a character is a one-character    *)
(* TLA+ string ("a", "/", "#").  Option<T> is a sequence of length 0       *)
(* (None) or 1 (Some).  Result<T> is <<"Ok", value>> or <<"Err", message>>. *)
(***************************************************************************)
EXTENDS Integers, Sequences, FiniteSets

VARIABLES
    permalinks,         \* the caller-owned HashMap<String, String>
    fs,                 \* the filesystem Path::canonicalize looks at
    op,                 \* the function the caller is in ("idle": none)
    link,               \* argument `link` of the current call
    anchor,             \* argument `anchor` of combine_anchor
    current_page_path,  \* argument `current_page_path`
    ret                 \* value returned by the current call

vars == <<permalinks, fs, op, link, anchor, current_page_path, ret>>

\* ------------------------------------------------------------------ bounds
MaxLinkLen == 4
MaxPathLen == 6
MaxPrefixedLen == 4

\* ----------------------------------------------------------------- strings
None == <<>>
Some(x) == <<x>>

\* All strings over `chars` of length at most n.
Strings(chars, n) == UNION {[1..k -> chars] : k \in 0..n}

\* str::starts_with
starts_with(s, p) == Len(s) >= Len(p) /\ SubSeq(s, 1, Len(p)) = p

\* str::ends_with
ends_with(s, p) ==
    Len(s) >= Len(p) /\ SubSeq(s, Len(s) - Len(p) + 1, Len(s)) = p

\* str::find(char): index of the first occurrence, 0 for None.
find(s, c) ==
    IF \E i \in 1..Len(s) : s[i] = c
    THEN CHOOSE i \in 1..Len(s) : s[i] = c /\ \A j \in 1..(i - 1) : s[j] # c
    ELSE 0

\* str::rfind(char): index of the last occurrence, 0 for None.
rfind(s, c) ==
    IF \E i \in 1..Len(s) : s[i] = c
    THEN CHOOSE i \in 1..Len(s) : s[i] = c /\ \A j \in (i + 1)..Len(s) : s[j] # c
    ELSE 0

\* str::strip_prefix(p).unwrap_or(s)
strip_prefix_or(s, p) ==
    IF starts_with(s, p) THEN SubSeq(s, Len(p) + 1, Len(s)) ELSE s

\* The 128 ASCII characters by code; control characters by their names.
AsciiTable ==
    << "NUL", "SOH", "STX", "ETX", "EOT", "ENQ", "ACK", "BEL",
       "BS", "HT", "LF", "VT", "FF", "CR", "SO", "SI",
       "DLE", "DC1", "DC2", "DC3", "DC4", "NAK", "SYN", "ETB",
       "CAN", "EM", "SUB", "ESC", "FS", "GS", "RS", "US",
       " ", "!", "\"", "#", "$", "%", "&", "'",
       "(", ")", "*", "+", ",", "-", ".", "/",
       "0", "1", "2", "3", "4", "5", "6", "7",
       "8", "9", ":", ";", "<", "=", ">", "?",
       "@", "A", "B", "C", "D", "E", "F", "G",
       "H", "I", "J", "K", "L", "M", "N", "O",
       "P", "Q", "R", "S", "T", "U", "V", "W",
       "X", "Y", "Z", "[", "\\", "]", "^", "_",
       "GRAVE", "a", "b", "c", "d", "e", "f", "g",
       "h", "i", "j", "k", "l", "m", "n", "o",
       "p", "q", "r", "s", "t", "u", "v", "w",
       "x", "y", "z", "{", "|", "}", "~", "DEL" >>

AsciiChars == {AsciiTable[i] : i \in 1..Len(AsciiTable)}

\* Byte value of an ASCII character.
Ord == [c \in AsciiChars |-> (CHOOSE i \in 1..Len(AsciiTable) : AsciiTable[i] = c) - 1]

\* str::as_bytes, for the ASCII strings the model feeds in.
as_bytes(s) == [i \in 1..Len(s) |-> Ord[s[i]]]

\* U+FFFD REPLACEMENT CHARACTER.
ReplacementChar == "U+FFFD"

IsHexDigit(b) == b \in 48..57 \/ b \in 65..70 \/ b \in 97..102

HexValue(b) ==
    IF b \in 48..57 THEN b - 48
    ELSE IF b \in 65..70 THEN b - 55
    ELSE b - 87

\* percent_encoding::percent_decode: "%" followed by two hex digits is one
\* byte; every other byte, a "%" without two hex digits included, is itself.
RECURSIVE percent_decode(_)
percent_decode(bytes) ==
    IF bytes = <<>> THEN <<>>
    ELSE IF /\ bytes[1] = Ord["%"]
            /\ Len(bytes) >= 3
            /\ IsHexDigit(bytes[2])
            /\ IsHexDigit(bytes[3])
         THEN <<16 * HexValue(bytes[2]) + HexValue(bytes[3])>>
                  \o percent_decode(SubSeq(bytes, 4, Len(bytes)))
         ELSE <<bytes[1]>> \o percent_decode(Tail(bytes))

\* PercentDecode::decode_utf8_lossy: an ASCII byte is its character; a byte
\* of 0x80 and above that starts no valid sequence is U+FFFD.  The hex
\* digits of LinkChars form no continuation byte (0x80..0xBF), so no
\* multi-byte sequence is valid here and each such byte is replaced alone.
decode_utf8_lossy(bytes) ==
    [i \in 1..Len(bytes) |->
        IF bytes[i] < 128 THEN AsciiTable[bytes[i] + 1] ELSE ReplacementChar]

\* ------------------------------------------------------ internal links
\* extract_anchor with a defect: it splits at the last '#', not the first.
extract_anchor_last(l) ==
    LET pos == rfind(l, "#") IN
    IF pos # 0
    THEN <<SubSeq(l, 1, pos - 1), Some(SubSeq(l, pos + 1, Len(l)))>>
    ELSE <<l, None>>

\* extract_anchor: <<base, anchor>>, split at the first '#'.
extract_anchor(l) ==
    LET pos == find(l, "#") IN
    IF pos # 0
    THEN <<SubSeq(l, 1, pos - 1), Some(SubSeq(l, pos + 1, Len(l)))>>
    ELSE <<l, None>>

\* combine_anchor with a defect: the '#' is appended without an anchor too.
combine_anchor_always(l, a) ==
    IF a # None THEN l \o <<"#">> \o a[1] ELSE l \o <<"#">>

\* combine_anchor
combine_anchor(l, a) ==
    IF a # None THEN l \o <<"#">> \o a[1] ELSE l

\* get_permalink_key_from_link: <<decoded, anchor>>.
get_permalink_key_from_link(l) ==
    LET clean_link == strip_prefix_or(l, <<"@", "/">>)
        split == extract_anchor(clean_link)
        clean_link_no_anchor == split[1]
        decoded == decode_utf8_lossy(percent_decode(as_bytes(clean_link_no_anchor)))
    IN <<decoded, split[2]>>

\* anyhow!("Relative link {} not found.", link)
NotFoundMessage(l) ==
    <<"R", "e", "l", "a", "t", "i", "v", "e", " ", "l", "i", "n", "k", " ">>
        \o l
        \o <<" ", "n", "o", "t", " ", "f", "o", "u", "n", "d", ".">>

\* resolve_internal_link with a defect: the error names the decoded key.
resolve_internal_link_key_in_error(l, table) ==
    LET key == get_permalink_key_from_link(l)
        decoded == key[1]
    IN IF decoded \notin DOMAIN table
       THEN <<"Err", NotFoundMessage(decoded)>>
       ELSE <<"Ok", [permalink |-> combine_anchor(table[decoded], key[2]),
                     md_path |-> decoded,
                     anchor |-> key[2]]>>

\* resolve_internal_link
resolve_internal_link(l, table) ==
    LET key == get_permalink_key_from_link(l)
        decoded == key[1]
    IN IF decoded \notin DOMAIN table
       THEN <<"Err", NotFoundMessage(l)>>
       ELSE <<"Ok", [permalink |-> combine_anchor(table[decoded], key[2]),
                     md_path |-> decoded,
                     anchor |-> key[2]]>>

\* is_link_internal_page with a defect: the key is looked up without
\* being percent-decoded.
is_link_internal_page_undecoded(l, table) ==
    extract_anchor(strip_prefix_or(l, <<"@", "/">>))[1] \in DOMAIN table

\* is_link_internal_page
is_link_internal_page(l, table) ==
    get_permalink_key_from_link(l)[1] \in DOMAIN table

\* ------------------------------------------------------------- std::path
\* The pieces of a path between its '/' separators, empty pieces included.
RECURSIVE SplitSlash(_)
SplitSlash(p) ==
    LET pos == find(p, "/") IN
    IF pos = 0 THEN <<p>>
    ELSE <<SubSeq(p, 1, pos - 1)>> \o SplitSlash(SubSeq(p, pos + 1, Len(p)))

\* Path::is_absolute (Unix): the path has a root.
is_absolute(p) == p # <<>> /\ p[1] = "/"

\* PathBuf::push / Path::join: an absolute argument replaces the buffer;
\* otherwise a separator is added unless the buffer is empty or ends in
\* one, and the argument is appended.
path_join(base, p) ==
    IF is_absolute(p) THEN p
    ELSE IF base # <<>> /\ base[Len(base)] # "/" THEN base \o <<"/">> \o p
    ELSE base \o p

\* Path::components (Unix): RootDir for a leading '/'; empty pieces and
\* '.' pieces are skipped, except a '.' that starts a relative path, which
\* is CurDir; '..' is ParentDir; every other piece is Normal.
components(p) ==
    LET pieces == SplitSlash(p)
        kept == SelectSeq([i \in 1..Len(pieces) |-> <<i, pieces[i]>>],
                          LAMBDA x : /\ x[2] # <<>>
                                     /\ (x[2] = <<".">> => x[1] = 1))
        comp(x) == IF x[2] = <<".">> THEN [kind |-> "CurDir", name |-> x[2]]
                   ELSE IF x[2] = <<".", ".">> THEN [kind |-> "ParentDir", name |-> x[2]]
                   ELSE [kind |-> "Normal", name |-> x[2]]
    IN (IF is_absolute(p) THEN <<[kind |-> "RootDir", name |-> <<"/">>]>> ELSE <<>>)
           \o [i \in 1..Len(kept) |-> comp(kept[i])]

\* The string with its trailing '/' characters removed.
RECURSIVE TrimTrailingSlashes(_)
TrimTrailingSlashes(p) ==
    IF p # <<>> /\ p[Len(p)] = "/" THEN TrimTrailingSlashes(SubSeq(p, 1, Len(p) - 1))
    ELSE p

\* PathBuf::pop: truncates to Path::parent, the path without its last
\* component; nothing happens when there is no parent ("" and "/").
pop(p) ==
    LET q == TrimTrailingSlashes(p)
        pos == rfind(q, "/")
        before == TrimTrailingSlashes(SubSeq(q, 1, pos - 1))
    IN IF q = <<>> THEN p
       ELSE IF pos = 0 THEN <<>>
       ELSE IF before = <<>> THEN <<"/">>
       ELSE before

\* The closure of the fallback: the components of the combined path,
\* left to right.
RECURSIVE resolve_components(_, _)
resolve_components(comps, resolved) ==
    IF comps = <<>> THEN resolved
    ELSE LET component == Head(comps) IN
         resolve_components(Tail(comps),
             CASE component.kind = "RootDir" -> path_join(resolved, component.name)
               [] component.kind = "ParentDir" -> pop(resolved)
               [] component.kind = "CurDir" -> resolved
               [] component.kind = "Normal" -> path_join(resolved, component.name))

\* ------------------------------------------------------------ filesystem
\* A filesystem: the working directory, the directories, the files and the
\* symbolic links, each node an absolute sequence of names.  A link's
\* target is a directory or a file, itself reached through no link.

\* A byte that is no UTF-8 text, as a file name may hold.
InvalidByte == "0xFF"

\* Nothing but the root directory, in which the process runs.
RootOnly ==
    [cwd |-> <<>>, dirs |-> {<<>>}, files |-> {}, links |-> <<>>]

\* /a and /a/a are directories, /a/a/a is a file; the process runs in /a.
WithDirs ==
    [cwd |-> << <<"a">> >>,
     dirs |-> {<<>>, << <<"a">> >>, << <<"a">>, <<"a">> >>},
     files |-> {<< <<"a">>, <<"a">>, <<"a">> >>},
     links |-> <<>>]

\* /a and /b are directories, /a/a is a symbolic link to /b.
WithLink ==
    [cwd |-> <<>>,
     dirs |-> {<<>>, << <<"a">> >>, << <<"b">> >>},
     files |-> {},
     links |-> [n \in {<< <<"a">>, <<"a">> >>} |-> << <<"b">> >>]]

\* /a is a symbolic link to a directory whose name is not UTF-8.
WithNonUtf8 ==
    [cwd |-> <<>>,
     dirs |-> {<<>>, << <<InvalidByte>> >>},
     files |-> {},
     links |-> [n \in {<< <<"a">> >>} |-> << <<InvalidByte>> >>]]

FileSystems == {RootOnly, WithDirs, WithLink, WithNonUtf8}

\* "/" followed by the names, '/' between them.
RECURSIVE RenderNames(_)
RenderNames(names) ==
    IF names = <<>> THEN <<>>
    ELSE IF Len(names) = 1 THEN names[1]
    ELSE names[1] \o <<"/">> \o RenderNames(Tail(names))

\* realpath(3) from directory `cur` over the remaining pieces: None when a
\* piece does not exist or a file is used as a directory.
RECURSIVE RealPathWalk(_, _, _)
RealPathWalk(f, cur, pieces) ==
    IF pieces = <<>> THEN Some(<<"/">> \o RenderNames(cur))
    ELSE LET s == Head(pieces)
             rest == Tail(pieces)
             next == Append(cur, s)
             target == IF next \in DOMAIN f.links THEN f.links[next] ELSE next
         IN IF s = <<>> \/ s = <<".">> THEN RealPathWalk(f, cur, rest)
            ELSE IF s = <<".", ".">>
                 THEN RealPathWalk(f, SubSeq(cur, 1, Len(cur) - 1), rest)
            ELSE IF target \in f.dirs THEN RealPathWalk(f, target, rest)
            ELSE IF target \in f.files /\ rest = <<>>
                 THEN Some(<<"/">> \o RenderNames(target))
            ELSE None

\* Path::canonicalize: Some(absolute path, links resolved) when every
\* component exists, None for the error; the empty path is an error.
canonicalize(f, p) ==
    IF p = <<>> THEN None
    ELSE RealPathWalk(f, IF is_absolute(p) THEN <<>> ELSE f.cwd, SplitSlash(p))

\* Path::to_str: None when the path is not UTF-8.
to_str(p) ==
    IF \E i \in 1..Len(p) : p[i] = InvalidByte THEN None ELSE Some(p)

\* ------------------------------------------------------- relative paths
Protocols ==
    << <<"h", "t", "t", "p", ":", "/", "/">>,
       <<"h", "t", "t", "p", "s", ":", "/", "/">>,
       <<"m", "a", "i", "l", "t", "o", ":">>,
       <<"f", "t", "p", ":", "/", "/">>,
       <<"f", "i", "l", "e", ":", "/", "/">>,
       <<"@", "/">> >>

\* link_has_protocol_or_zola with a defect: the "@/" entry is missing.
link_has_protocol_only(l) ==
    \E i \in 1..(Len(Protocols) - 1) : starts_with(l, Protocols[i])

\* link_has_protocol_or_zola
link_has_protocol_or_zola(l) ==
    \E i \in 1..Len(Protocols) : starts_with(l, Protocols[i])

\* The base path of canonicalize_relative_path: the closure mapped over
\* current_page_path, and "" for None.
basepath(page) ==
    IF page = None THEN <<>>
    ELSE LET p == page[1] IN
         IF ends_with(p, <<".", "m", "d">>)
         THEN LET pos == rfind(p, "/") IN
              IF pos # 0 THEN SubSeq(p, 1, pos - 1) ELSE p
         ELSE p

\* canonicalize_relative_path
canonicalize_relative_path(f, l, page) ==
    IF link_has_protocol_or_zola(l) THEN l
    ELSE LET combined_path ==
                 IF is_absolute(l) THEN l ELSE path_join(basepath(page), l)
             probe == canonicalize(f, combined_path)
             canon_path ==
                 IF probe # None THEN probe[1]
                 ELSE resolve_components(components(combined_path), <<>>)
             text == to_str(canon_path)
         IN IF text # None THEN text[1] ELSE l

\* ---------------------------------------------------------------- inputs
\* "f" is a letter and a hex digit: "%20" is a space, "%2f" a '/', "%ff"
\* a byte that is no UTF-8.
LinkChars == {"f", "#", "%", "2", "0"}

LinkPrefixes == {<<>>, <<"@", "/">>, <<"@", "/", "@", "/">>}

LinkTails == {<<>>, <<"#", "f">>}

Links ==
    {pre \o body \o tail :
        pre \in LinkPrefixes, body \in Strings(LinkChars, MaxLinkLen), tail \in LinkTails}

Anchors == {None} \cup {Some(a) : a \in Strings({"f", "#"}, 2)}

UrlF == <<"h", "t", "t", "p", "s", ":", "/", "/", "x", "/", "f">>
UrlSpace == <<"h", "t", "t", "p", "s", ":", "/", "/", "x", "/", "f", "%", "2", "0", "/">>

\* The permalink tables the build may hand over: keys are percent-decoded
\* paths without "@/" and without anchor.
EmptyTable == [k \in {} |-> UrlF]

PermalinkTables ==
    { EmptyTable,
      [k \in {<<"f">>, <<" ">>, <<"f", " ">>} |->
          IF k = <<"f">> THEN UrlF ELSE UrlSpace],
      [k \in {<<>>, <<"@", "/", "f">>, <<ReplacementChar>>, <<"%", "2", "0">>} |->
          IF k = <<>> THEN UrlSpace ELSE UrlF] }

PathChars == {"a", "/", ".", "#"}

\* Prefixes that look like a protocol and are none of the list.
NearProtocols ==
    { <<"H", "T", "T", "P", ":", "/", "/">>, <<"h", "t", "t", "p", ":", "/">> }

PathLinks ==
    Strings(PathChars, MaxPathLen)
        \cup {pre \o body :
                pre \in {Protocols[i] : i \in 1..Len(Protocols)},
                body \in Strings(PathChars, MaxPrefixedLen)}

\* Links the classifier is asked about: the above, and the near misses.
ClassifiedLinks ==
    PathLinks
        \cup {pre \o body :
                pre \in NearProtocols, body \in Strings(PathChars, MaxPrefixedLen)}

Pages ==
    { None,
      Some(<<>>),
      Some(<<"/", "a">>),
      Some(<<"a">>),
      Some(<<"/", "a", "/">>),
      Some(<<"/", "a", "/", "a", "/", "f", ".", "m", "d">>),
      Some(<<"f", ".", "m", "d">>),
      Some(<<"/", "f", ".", "m", "d">>) }

\* --------------------------------------------------------------- actions
Idle ==
    /\ op = "idle"
    /\ link = <<>>
    /\ anchor = None
    /\ current_page_path = None
    /\ ret = None

InitLinks ==
    /\ permalinks \in PermalinkTables
    /\ fs = RootOnly
    /\ Idle

InitPaths ==
    /\ permalinks = EmptyTable
    /\ fs = RootOnly
    /\ Idle

CallResolveInternalLink ==
    /\ op = "idle"
    /\ \E l \in Links :
        /\ link' = l
        /\ ret' = resolve_internal_link(l, permalinks)
    /\ op' = "resolve_internal_link"
    /\ UNCHANGED <<permalinks, fs, anchor, current_page_path>>

CallGetPermalinkKeyFromLink ==
    /\ op = "idle"
    /\ \E l \in Links :
        /\ link' = l
        /\ ret' = get_permalink_key_from_link(l)
    /\ op' = "get_permalink_key_from_link"
    /\ UNCHANGED <<permalinks, fs, anchor, current_page_path>>

CallIsLinkInternalPage ==
    /\ op = "idle"
    /\ \E l \in Links :
        /\ link' = l
        /\ ret' = is_link_internal_page(l, permalinks)
    /\ op' = "is_link_internal_page"
    /\ UNCHANGED <<permalinks, fs, anchor, current_page_path>>

CallExtractAnchor ==
    /\ op = "idle"
    /\ \E l \in Links :
        /\ link' = l
        /\ ret' = extract_anchor(l)
    /\ op' = "extract_anchor"
    /\ UNCHANGED <<permalinks, fs, anchor, current_page_path>>

CallCombineAnchor ==
    /\ op = "idle"
    /\ \E l \in Links, a \in Anchors :
        /\ link' = l
        /\ anchor' = a
        /\ ret' = combine_anchor(l, a)
    /\ op' = "combine_anchor"
    /\ UNCHANGED <<permalinks, fs, current_page_path>>

CallLinkHasProtocolOrZola ==
    /\ op = "idle"
    /\ \E l \in ClassifiedLinks :
        /\ link' = l
        /\ ret' = link_has_protocol_or_zola(l)
    /\ op' = "link_has_protocol_or_zola"
    /\ UNCHANGED <<permalinks, fs, anchor, current_page_path>>

CallCanonicalizeRelativePath ==
    /\ op = "idle"
    /\ \E l \in PathLinks, page \in Pages :
        /\ link' = l
        /\ current_page_path' = page
        /\ ret' = canonicalize_relative_path(fs, l, page)
    /\ op' = "canonicalize_relative_path"
    /\ UNCHANGED <<permalinks, fs, anchor>>

\* The call returns and the caller goes on to its next link.
Return ==
    /\ op # "idle"
    /\ op' = "idle"
    /\ link' = <<>>
    /\ anchor' = None
    /\ current_page_path' = None
    /\ ret' = None
    /\ UNCHANGED <<permalinks, fs>>

\* Between two calls files appear, disappear or are linked.
FsChange ==
    /\ op = "idle"
    /\ \E f \in FileSystems : f # fs /\ fs' = f
    /\ UNCHANGED <<permalinks, op, link, anchor, current_page_path, ret>>

NextLinks ==
    \/ CallResolveInternalLink
    \/ CallGetPermalinkKeyFromLink
    \/ CallIsLinkInternalPage
    \/ CallExtractAnchor
    \/ CallCombineAnchor
    \/ Return

NextPaths ==
    \/ CallLinkHasProtocolOrZola
    \/ CallCanonicalizeRelativePath
    \/ FsChange
    \/ Return

SpecLinks == InitLinks /\ [][NextLinks]_vars

SpecPaths == InitPaths /\ [][NextPaths]_vars

\* ---------------------------------------------------------------- claims
\* Readings of a link that the statements below are phrased in.
HashPositions(s) == {i \in 1..Len(s) : s[i] = "#"}

FirstHash(s) == CHOOSE i \in HashPositions(s) : \A j \in HashPositions(s) : i <= j

\* The text after the first '#': present exactly when there is a '#'.
AnchorOf(s) ==
    IF HashPositions(s) = {} THEN None
    ELSE Some(SubSeq(s, FirstHash(s) + 1, Len(s)))

\* The text before the first '#'.
BeforeHash(s) ==
    IF HashPositions(s) = {} THEN s ELSE SubSeq(s, 1, FirstHash(s) - 1)

\* The link with one leading "@/" removed.
WithoutZolaPrefix(s) ==
    IF Len(s) >= 2 /\ s[1] = "@" /\ s[2] = "/" THEN SubSeq(s, 3, Len(s)) ELSE s

\* The key of a link: prefix removed, cut before the first '#', decoded.
KeyOf(s) ==
    decode_utf8_lossy(percent_decode(as_bytes(BeforeHash(WithoutZolaPrefix(s)))))

\* C1: whenever the key of the link is in the table, resolve_internal_link
\* succeeds with md_path the decoded key, anchor the text after the first
\* '#' (present exactly when the link has a '#') and permalink the table
\* value, followed by "#" and the anchor exactly when there is an anchor.
C1_ResolveHit ==
    (op = "resolve_internal_link" /\ KeyOf(link) \in DOMAIN permalinks) =>
        /\ ret[1] = "Ok"
        /\ ret[2].md_path = KeyOf(link)
        /\ ret[2].anchor = AnchorOf(link)
        /\ ret[2].permalink =
               IF AnchorOf(link) = None THEN permalinks[KeyOf(link)]
               ELSE permalinks[KeyOf(link)] \o <<"#">> \o AnchorOf(link)[1]

\* C1 witness: an escaped, prefixed link with an anchor was resolved.
C1_Witness ==
    /\ op = "resolve_internal_link"
    /\ link = <<"@", "/", "%", "2", "0", "#", "f">>
    /\ ret[1] = "Ok"
    /\ ret[2].md_path = <<" ">>
    /\ ret[2].anchor = Some(<<"f">>)
    /\ ret[2].permalink = UrlSpace \o <<"#", "f">>

\* C2: resolve_internal_link fails exactly when the key of the link is not
\* in the table (always, against an empty table); it then returns an error
\* value whose message holds the link as it was given.
C2_ResolveMiss ==
    op = "resolve_internal_link" =>
        /\ ret[1] \in {"Ok", "Err"}
        /\ (ret[1] = "Err") <=> (KeyOf(link) \notin DOMAIN permalinks)
        /\ (DOMAIN permalinks = {}) => ret[1] = "Err"
        /\ ret[1] = "Err" =>
               /\ Len(ret[2]) = Len(link) + 25
               /\ SubSeq(ret[2], 15, 14 + Len(link)) = link

\* C2 witness: a prefixed, escaped link with an anchor was not found, and
\* its key differs from the link.
C2_Witness ==
    /\ op = "resolve_internal_link"
    /\ link = <<"@", "/", "%", "2", "0", "#", "f">>
    /\ KeyOf(link) = <<" ">>
    /\ DOMAIN permalinks # {}
    /\ ret[1] = "Err"

\* C3 as stated: extract_anchor after combine_anchor gives back the link
\* and the anchor, for every link and every non-empty anchor.
C3_RoundTripAnyLink ==
    (op = "combine_anchor" /\ anchor # None /\ anchor[1] # <<>>) =>
        extract_anchor(ret) = <<link, anchor>>

\* C3 amended: extract_anchor after combine_anchor gives back the link and
\* the anchor, for every link that holds no '#' and every non-empty anchor.
C3_RoundTrip ==
    (/\ op = "combine_anchor"
     /\ anchor # None
     /\ anchor[1] # <<>>
     /\ HashPositions(link) = {}) =>
        extract_anchor(ret) = <<link, anchor>>

\* C3 witness: a link without '#' was combined with an anchor that holds
\* a '#' itself, and the pair came back.
C3_Witness ==
    /\ op = "combine_anchor"
    /\ link = <<"@", "/", "f", "%", "2">>
    /\ anchor = Some(<<"f", "#">>)
    /\ ret = <<"@", "/", "f", "%", "2", "#", "f", "#">>
    /\ extract_anchor(ret) = <<link, anchor>>

\* C4: is_link_internal_page returns a boolean that is true exactly when
\* resolve_internal_link succeeds on the same link and table, and the same
\* for the link with its anchor removed or replaced.
C4_ProbeAgrees ==
    op = "is_link_internal_page" =>
        /\ ret \in BOOLEAN
        /\ ret <=> (resolve_internal_link(link, permalinks)[1] = "Ok")
        /\ \A a \in Anchors :
               ret <=> (resolve_internal_link(
                            combine_anchor(BeforeHash(link), a), permalinks)[1] = "Ok")

\* C4 witness: the probe said yes to an escaped link with an anchor, which
\* is a key only once decoded.
C4_Witness ==
    /\ op = "is_link_internal_page"
    /\ link = <<"@", "/", "%", "2", "0", "#", "f">>
    /\ link \notin DOMAIN permalinks
    /\ ret = TRUE

\* The prefixes canonicalize_relative_path leaves alone.
ListedPrefixes ==
    { <<"h", "t", "t", "p", ":", "/", "/">>,
      <<"h", "t", "t", "p", "s", ":", "/", "/">>,
      <<"m", "a", "i", "l", "t", "o", ":">>,
      <<"f", "t", "p", ":", "/", "/">>,
      <<"f", "i", "l", "e", ":", "/", "/">>,
      <<"@", "/">> }

HasListedPrefix(s) ==
    \E p \in ListedPrefixes : Len(s) >= Len(p) /\ \A i \in 1..Len(p) : s[i] = p[i]

\* C5: a link that starts with one of the listed prefixes, compared case
\* by case, is what link_has_protocol_or_zola accepts, and it is returned
\* unchanged by canonicalize_relative_path, whatever the page path.
C5_ProtocolUnchanged ==
    /\ (op = "canonicalize_relative_path" /\ HasListedPrefix(link)) => ret = link
    /\ op = "link_has_protocol_or_zola" => ret = HasListedPrefix(link)

\* C5 witness: an "@/" link with '..' and '.' segments and a trailing slash
\* came back unchanged under a page path that ends in ".md".
C5_Witness ==
    /\ op = "canonicalize_relative_path"
    /\ link = <<"@", "/", ".", ".", "/">>
    /\ current_page_path = Some(<<"/", "a", "/", "a", "/", "f", ".", "m", "d">>)
    /\ ret = link

\* The non-empty pieces of a path.
Segments(p) == SelectSeq(SplitSlash(p), LAMBDA x : x # <<>>)

\* The walk of the statement over the segments, `kept` the segments kept.
RECURSIVE Walk(_, _)
Walk(segs, kept) ==
    IF segs = <<>> THEN kept
    ELSE Walk(Tail(segs),
              IF Head(segs) = <<".">> THEN kept
              ELSE IF Head(segs) = <<".", ".">>
                   THEN SubSeq(kept, 1, Len(kept) - 1)
              ELSE Append(kept, Head(segs)))

\* The lexical normal form of a path: root marker, then the kept segments.
Lexical(p) ==
    (IF p # <<>> /\ p[1] = "/" THEN <<"/">> ELSE <<>>)
        \o RenderNames(Walk(Segments(p), <<>>))

\* The path canonicalize_relative_path normalizes.
CombinedPath(l, page) ==
    IF l # <<>> /\ l[1] = "/" THEN l ELSE path_join(basepath(page), l)

\* C6 as stated: for a link without listed prefix the result is the
\* lexical walk of the combined path, and holds no '.' or '..' segment.
C6_LexicalWalk ==
    (op = "canonicalize_relative_path" /\ ~HasListedPrefix(link)) =>
        /\ ret = Lexical(CombinedPath(link, current_page_path))
        /\ \A i \in 1..Len(Segments(ret)) :
               Segments(ret)[i] \notin {<<".">>, <<".", ".">>}

\* C7 as stated: for a link without listed prefix that holds a '#', the
\* result ends with the link's text from its first '#' on.
C7_AnchorSurvives ==
    (/\ op = "canonicalize_relative_path"
     /\ ~HasListedPrefix(link)
     /\ HashPositions(link) # {}) =>
        ends_with(ret, SubSeq(link, FirstHash(link), Len(link)))

\* The directory that holds the file `p`.
ContainingDir(p) ==
    LET slashes == {i \in 1..Len(p) : p[i] = "/"}
        last == CHOOSE i \in slashes : \A j \in slashes : j <= i
    IN IF slashes = {} THEN <<>>
       ELSE IF last = 1 THEN <<"/">>
       ELSE SubSeq(p, 1, last - 1)

\* C8 as stated: under a page path that ends in ".md" a relative link gives
\* what it gives under the directory that holds the page.
C8_MdBase ==
    (/\ op = "canonicalize_relative_path"
     /\ ~HasListedPrefix(link)
     /\ ~(link # <<>> /\ link[1] = "/")
     /\ current_page_path # None
     /\ ends_with(current_page_path[1], <<".", "m", "d">>)) =>
        ret = canonicalize_relative_path(
                  fs, link, Some(ContainingDir(current_page_path[1])))

\* C9 as stated: the result is the same string under every state of the
\* filesystem.
C9_SameUnderEveryFilesystem ==
    op = "canonicalize_relative_path" =>
        \A f \in FileSystems :
            ret = canonicalize_relative_path(f, link, current_page_path)

\* C10 as stated: for a link without listed prefix the result starts with
\* "/" when the page path does, and when the link does.
C10_Absolute ==
    (/\ op = "canonicalize_relative_path"
     /\ ~HasListedPrefix(link)
     /\ \/ current_page_path # None /\ starts_with(current_page_path[1], <<"/">>)
        \/ starts_with(link, <<"/">>)) =>
        starts_with(ret, <<"/">>)

====
